---- MODULE Spec2Model ----
\* Habit Tracker v1 (src/habit_tracker.py): the Habit entity, the store
\* codec, the persistence manager, the streak calculator and the menu loop
\* of main(), as a state machine.
\*
\* Representation
\*   str      a Python str is the sequence of its character codes, so that
\*            sorted(), lower(), str() and list() are computed, not assumed
\*   date     a datetime.date is its offset in days from Epoch; isoformat()
\*            renders it through the Gregorian calendar
\*   JSON     a parsed JSON value is a record [t |-> type, v |-> payload]
\*            (StrV, NumV, BoolV, NullV, ListV, DictV below)
\*   Habit    [id, name, created_at, completions]; the three first are str,
\*            completions is the Python list, a sequence of JSON values
EXTENDS Integers, Sequences, FiniteSets, TLC

\* ---------------------------------------------------------------- bounds
MaxDay == 2       \* the clock runs over the days 0 .. MaxDay
MaxHabits == 2    \* habits held in memory at once
MaxLen == 3       \* length of a completions list drawn as an input
MaxBack == 7      \* days before day 0 that the weekly summary is tried on

Days == 0 .. MaxDay

\* ------------------------------------------------------------- Python str
Range(s) == {s[i] : i \in DOMAIN s}

RECURSIVE StrLess(_, _)
\* a < b on str: lexicographic on code points
StrLess(a, b) ==
  IF b = <<>> THEN FALSE
  ELSE IF a = <<>> THEN TRUE
  ELSE IF a[1] # b[1] THEN a[1] < b[1]
  ELSE StrLess(Tail(a), Tail(b))

\* str.lower() on ASCII
lower(s) == [i \in DOMAIN s |-> IF s[i] >= 65 /\ s[i] <= 90 THEN s[i] + 32 ELSE s[i]]

Pad2(n) == <<48 + (n \div 10), 48 + (n % 10)>>
Pad4(n) == <<48 + (n \div 1000), 48 + ((n \div 100) % 10)>> \o Pad2(n % 100)

RECURSIVE Digits(_)
Digits(n) == IF n < 10 THEN <<48 + n>> ELSE Digits(n \div 10) \o <<48 + (n % 10)>>

\* ---------------------------------------------------------- datetime.date
Epoch == <<2024, 2, 28>>   \* day 0 of the model's clock

IsLeap(y) == (y % 4 = 0 /\ y % 100 # 0) \/ y % 400 = 0

DaysInMonth(y, m) ==
  IF m = 2 THEN (IF IsLeap(y) THEN 29 ELSE 28)
  ELSE IF m \in {4, 6, 9, 11} THEN 30 ELSE 31

NextDate(d) ==
  IF d[3] < DaysInMonth(d[1], d[2]) THEN <<d[1], d[2], d[3] + 1>>
  ELSE IF d[2] < 12 THEN <<d[1], d[2] + 1, 1>>
  ELSE <<d[1] + 1, 1, 1>>

PrevDate(d) ==
  IF d[3] > 1 THEN <<d[1], d[2], d[3] - 1>>
  ELSE IF d[2] > 1 THEN <<d[1], d[2] - 1, DaysInMonth(d[1], d[2] - 1)>>
  ELSE <<d[1] - 1, 12, 31>>

RECURSIVE YMD(_)
\* year, month, day of the date n days from Epoch
YMD(n) ==
  IF n = 0 THEN Epoch
  ELSE IF n > 0 THEN NextDate(YMD(n - 1))
  ELSE PrevDate(YMD(n + 1))

\* date.isoformat(): YYYY-MM-DD
isoformat(n) ==
  LET d == YMD(n) IN Pad4(d[1]) \o <<45>> \o Pad2(d[2]) \o <<45>> \o Pad2(d[3])

\* ------------------------------------------------------------ JSON values
StrV(s) == [t |-> "str", v |-> s]
NumV(n) == [t |-> "num", v |-> <<n>>]
BoolV(b) == [t |-> "bool", v |-> <<IF b THEN 1 ELSE 0>>]
NullV == [t |-> "null", v |-> <<>>]
ListV(l) == [t |-> "list", v |-> l]
DictV(f) == [t |-> "dict", v |-> f]
EmptyDict == DictV(<<>>)

\* the keys the model's records use, in the order they are written
KeyOrder == <<"version", "habits", "id", "name", "created_at", "completions", "note">>

KeyStr(k) ==
  CASE k = "version" -> <<118, 101, 114, 115, 105, 111, 110>>
    [] k = "habits" -> <<104, 97, 98, 105, 116, 115>>
    [] k = "id" -> <<105, 100>>
    [] k = "name" -> <<110, 97, 109, 101>>
    [] k = "created_at" -> <<99, 114, 101, 97, 116, 101, 100, 95, 97, 116>>
    [] k = "completions" -> <<99, 111, 109, 112, 108, 101, 116, 105, 111, 110, 115>>
    [] OTHER -> <<110, 111, 116, 101>>

\* the keys of a dict, in order
Keys(f) == SelectSeq(KeyOrder, LAMBDA k : k \in DOMAIN f)

\* dict.get(key, default)
Get(d, k, default) == IF k \in DOMAIN d.v THEN d.v[k] ELSE default

\* a == b on JSON values (1 == True in Python)
PyEq(a, b) ==
  IF a.t \in {"num", "bool"} /\ b.t \in {"num", "bool"} THEN a.v = b.v
  ELSE a.t = b.t /\ a.v = b.v

RECURSIVE Join(_, _)
Join(parts, sep) ==
  IF parts = <<>> THEN <<>>
  ELSE IF Len(parts) = 1 THEN parts[1]
  ELSE parts[1] \o sep \o Join(Tail(parts), sep)

RECURSIVE PyRepr(_)
\* repr(x)
PyRepr(x) ==
  CASE x.t = "str" -> <<39>> \o x.v \o <<39>>
    [] x.t = "num" -> Digits(x.v[1])
    [] x.t = "bool" -> IF x.v[1] = 1 THEN <<84, 114, 117, 101>> ELSE <<70, 97, 108, 115, 101>>
    [] x.t = "null" -> <<78, 111, 110, 101>>
    [] x.t = "list" ->
         <<91>> \o Join([i \in DOMAIN x.v |-> PyRepr(x.v[i])], <<44, 32>>) \o <<93>>
    [] OTHER ->
         LET ks == Keys(x.v) IN
         <<123>> \o Join([i \in DOMAIN ks |->
                           <<39>> \o KeyStr(ks[i]) \o <<39, 58, 32>> \o PyRepr(x.v[ks[i]])],
                         <<44, 32>>) \o <<125>>

\* str(x)
PyStr(x) == IF x.t = "str" THEN x.v ELSE PyRepr(x)

\* list(x) succeeds on str, list and dict, raises TypeError on the rest
Iterable(x) == x.t \in {"str", "list", "dict"}

PyList(x) ==
  CASE x.t = "list" -> x.v
    [] x.t = "str" -> [i \in DOMAIN x.v |-> StrV(<<x.v[i]>>)]
    [] x.t = "dict" -> LET ks == Keys(x.v) IN [i \in DOMAIN ks |-> StrV(KeyStr(ks[i]))]
    [] OTHER -> <<>>

\* hash(x) succeeds
Hashable(x) == x.t \notin {"list", "dict"}

\* x < y is defined (no TypeError)
Comparable(x, y) ==
  \/ x.t = "str" /\ y.t = "str"
  \/ x.t \in {"num", "bool"} /\ y.t \in {"num", "bool"}

ValLess(x, y) == IF x.t = "str" THEN StrLess(x.v, y.v) ELSE x.v[1] < y.v[1]

\* sorted(S) raises TypeError when two elements cannot be compared
Sortable(S) == \A x, y \in S : x # y => Comparable(x, y)

RECURSIVE sorted(_)
sorted(S) ==
  IF S = {} THEN <<>>
  ELSE LET m == CHOOSE x \in S : \A y \in S : y = x \/ ValLess(x, y)
       IN <<m>> \o sorted(S \ {m})

\* ------------------------------------------------------------ Habit entity
Habit(id, name, created_at, completions) ==
  [id |-> id, name |-> name, created_at |-> created_at, completions |-> completions]

\* set(self.completions) raises TypeError on an unhashable element
CanHash(h) == \A e \in Range(h.completions) : Hashable(e)

completion_set(h) == Range(h.completions)

is_completed_on(h, iso_day) == StrV(iso_day) \in completion_set(h)

\* the outcome of a mutator: the habit afterwards, the value returned and
\* the exception raised ("none" when it returns)
Outcome(h, ret, raised) == [habit |-> h, ret |-> ret, raised |-> raised]

\* mark_complete without the early return on a day already marked
mark_complete_no_check(h, iso_day) ==
  LET s == completion_set(h) IN
  IF ~CanHash(h) THEN Outcome(h, FALSE, "TypeError")
  ELSE IF ~Sortable(s \cup {StrV(iso_day)}) THEN Outcome(h, FALSE, "TypeError")
  ELSE Outcome([h EXCEPT !.completions = sorted(s \cup {StrV(iso_day)})], TRUE, "none")

mark_complete(h, iso_day) ==
  LET s == completion_set(h) IN
  IF ~CanHash(h) THEN Outcome(h, FALSE, "TypeError")
  ELSE IF StrV(iso_day) \in s THEN Outcome(h, FALSE, "none")
  ELSE IF ~Sortable(s \cup {StrV(iso_day)}) THEN Outcome(h, FALSE, "TypeError")
  ELSE Outcome([h EXCEPT !.completions = sorted(s \cup {StrV(iso_day)})], TRUE, "none")

\* unmark_complete that rewrites completions before it looks for the day
unmark_complete_rewrites(h, iso_day) ==
  LET s == completion_set(h) IN
  IF ~CanHash(h) \/ ~Sortable(s) THEN Outcome(h, FALSE, "TypeError")
  ELSE Outcome([h EXCEPT !.completions = sorted(s \ {StrV(iso_day)})], StrV(iso_day) \in s, "none")

unmark_complete(h, iso_day) ==
  LET s == completion_set(h) IN
  IF ~CanHash(h) THEN Outcome(h, FALSE, "TypeError")
  ELSE IF StrV(iso_day) \notin s THEN Outcome(h, FALSE, "none")
  ELSE IF ~Sortable(s \ {StrV(iso_day)}) THEN Outcome(h, FALSE, "TypeError")
  ELSE Outcome([h EXCEPT !.completions = sorted(s \ {StrV(iso_day)})], TRUE, "none")

\* ------------------------------------------------------------- persistence
SCHEMA_VERSION == 1

\* a file on disk: absent, or bytes that open()/json.load() treat in one of
\* four ways. "oserror": open or read fails with OSError; "badutf8": the
\* bytes are not UTF-8, read fails with UnicodeDecodeError; "badjson": text
\* that json rejects with JSONDecodeError; "json": text that parses to doc.
\* bytes tells apart the contents of files that do not parse.
Absent == [kind |-> "absent", doc |-> NullV, bytes |-> 0]
JsonFile(doc) == [kind |-> "json", doc |-> doc, bytes |-> 0]
RawFile(kind, b) == [kind |-> kind, doc |-> NullV, bytes |-> b]

default_store == DictV([version |-> NumV(SCHEMA_VERSION), habits |-> ListV(<<>>)])

\* store[k] = x
SetKey(d, k, x) == DictV([kk \in DOMAIN d.v \cup {k} |-> IF kk = k THEN x ELSE d.v[kk]])

\* load_store without the version stamp
StampVersion_never(store) == store

StampVersion(store) ==
  IF ~PyEq(Get(store, "version", NullV), NumV(SCHEMA_VERSION))
  THEN SetKey(store, "version", NumV(SCHEMA_VERSION))
  ELSE store

CoerceHabits(store) ==
  IF store.v["habits"].t # "list" THEN SetKey(store, "habits", ListV(<<>>)) ELSE store

\* load_store on content that parsed
ShapeStore(store) ==
  IF store.t # "dict" \/ "habits" \notin DOMAIN store.v THEN default_store
  ELSE CoerceHabits(StampVersion(store))

\* -------------------------------------------------------------- store codec
\* the Habit built from one record of the document
DecodeEntry(h, t) ==
  Habit(PyStr(Get(h, "id", StrV(<<>>))),
        PyStr(Get(h, "name", StrV(<<>>))),
        PyStr(Get(h, "created_at", StrV(t))),
        PyList(Get(h, "completions", ListV(<<>>))))

\* the entries habits_from_store iterates over
StoreEntries(store) == PyList(Get(store, "habits", ListV(<<>>)))

\* habits_from_store raises TypeError: list() of a value that is not iterable
DecodeRaises(store) ==
  \/ ~Iterable(Get(store, "habits", ListV(<<>>)))
  \/ \E i \in DOMAIN StoreEntries(store) :
        LET h == StoreEntries(store)[i] IN
        h.t = "dict" /\ ~Iterable(Get(h, "completions", ListV(<<>>)))

IsRecord(h) == h.t = "dict"

\* the filter without the test of the name
NotBroken_id_only(h) == h.id # <<>>

NotBroken(h) == h.id # <<>> /\ h.name # <<>>

\* habits_from_store when it returns; t is today_iso()
habits_from_store(store, t) ==
  LET recs == SelectSeq(StoreEntries(store), IsRecord)
      decoded == [i \in DOMAIN recs |-> DecodeEntry(recs[i], t)]
  IN SelectSeq(decoded, NotBroken)

asdict(h) ==
  DictV([id |-> StrV(h.id), name |-> StrV(h.name),
         created_at |-> StrV(h.created_at), completions |-> ListV(h.completions)])

store_from_habits(hs) ==
  DictV([version |-> NumV(SCHEMA_VERSION),
         habits |-> ListV([i \in DOMAIN hs |-> asdict(hs[i])])])

\* --------------------------------------------------------------- core logic
RECURSIVE StreakFrom(_, _)
\* the while loop of current_streak
StreakFrom(completed, day) ==
  IF StrV(isoformat(day)) \in completed
  THEN 1 + StreakFrom(completed, day - 1)
  ELSE 0

\* current_streak that always counts back from ref
current_streak_from_ref(h, ref) == StreakFrom(completion_set(h), ref)

\* current_streak that never counts the reference day
current_streak_before_ref(h, ref) ==
  IF completion_set(h) = {} THEN 0 ELSE StreakFrom(completion_set(h), ref - 1)

current_streak(h, ref) ==
  LET completed == completion_set(h) IN
  IF completed = {} THEN 0
  ELSE LET start == IF StrV(isoformat(ref)) \notin completed THEN ref - 1 ELSE ref
       IN StreakFrom(completed, start)

\* weekly_summary over eight days
weekly_summary_8(h, ref) ==
  Cardinality({i \in 0 .. 7 : StrV(isoformat(ref - i)) \in completion_set(h)})

weekly_summary(h, ref) ==
  Cardinality({i \in 0 .. 6 : StrV(isoformat(ref - i)) \in completion_set(h)})

\* ------------------------------------------------------------------- state
VARIABLES
  pc,      \* where the program is: "start", "loaded", "menu", "done", "crashed" in main(); "unit" when one Habit is driven directly
  file,    \* data/habits.json
  bak,     \* data/habits.json.bak
  store,   \* main's local store, the document load_store returned
  habits,  \* main's local habits, the in-memory sequence of Habit
  today,   \* the day date.today() returns
  last,    \* the last call made on a Habit directly: operation, iso_day, ref, value returned, count returned
  raised   \* the exception that ended the run, "none" otherwise

vars == <<pc, file, bak, store, habits, today, last, raised>>

today_iso == isoformat(today)

Call(op, day, ref, ret, n) == [op |-> op, day |-> day, ref |-> ref, ret |-> ret, n |-> n]
NoCall == Call("none", <<>>, 0, FALSE, 0)

\* ---------------------------------------------------------------- inputs
\* what the user types at "Habit name: " (ask_nonempty strips it and
\* refuses the empty string)
Names == {<<82, 117, 110>>, <<114, 117, 110>>, <<71, 111>>}   \* Run, run, Go

\* uuid.uuid4().hex[:8]: eight hexadecimal digits
HexId(c) == <<48, 48, 48, 48, 48, 48, 48, c>>
NewIds == {HexId(97), HexId(98)}

\* outcomes of writing the data file
SaveOutcomes == {"ok", "open_fails", "write_fails"}

\* ------------------------------------------------------------ persistence
\* load_store, from main()
LoadStore ==
  /\ pc = "start"
  /\ \/ /\ file.kind = "absent"
        /\ store' = default_store
        /\ pc' = "loaded"
        /\ UNCHANGED <<file, bak, raised>>
     \/ /\ file.kind \in {"oserror", "badjson"}
        /\ \E replaced \in BOOLEAN :
             IF replaced THEN bak' = file /\ file' = Absent
             ELSE UNCHANGED <<file, bak>>
        /\ store' = default_store
        /\ pc' = "loaded"
        /\ UNCHANGED raised
     \/ /\ file.kind = "badutf8"
        /\ pc' = "crashed"
        /\ raised' = "UnicodeDecodeError"
        /\ UNCHANGED <<file, bak, store>>
     \/ /\ file.kind = "json"
        /\ store' = ShapeStore(file.doc)
        /\ pc' = "loaded"
        /\ UNCHANGED <<file, bak, raised>>
  /\ UNCHANGED <<habits, today, last>>

\* habits_from_store(store), from main(); main does not read store again
HabitsFromStore ==
  /\ pc = "loaded"
  /\ IF DecodeRaises(store)
     THEN pc' = "crashed" /\ raised' = "TypeError" /\ UNCHANGED habits
     ELSE pc' = "menu" /\ habits' = habits_from_store(store, today_iso) /\ UNCHANGED raised
  /\ store' = NullV
  /\ UNCHANGED <<file, bak, today, last>>

\* save_store(store_from_habits(hs)) and what main does next: next is the
\* position reached when the write succeeds. An OSError is not caught: the
\* process ends and its memory with it.
\* save_store inside a try/except that goes on
SaveThen_swallows(hs, io, next) ==
  /\ file' = CASE io = "ok" -> JsonFile(store_from_habits(hs))
               [] io = "open_fails" -> file
               [] OTHER -> RawFile("badjson", 2)
  /\ pc' = next
  /\ raised' = raised
  /\ habits' = IF next = "menu" THEN hs ELSE <<>>
  /\ UNCHANGED store

SaveThen(hs, io, next) ==
  /\ file' = CASE io = "ok" -> JsonFile(store_from_habits(hs))
               [] io = "open_fails" -> file
               [] OTHER -> RawFile("badjson", 2)
  /\ pc' = IF io = "ok" THEN next ELSE "crashed"
  /\ raised' = IF io = "ok" THEN raised ELSE "OSError"
  /\ habits' = IF io = "ok" /\ next = "menu" THEN hs ELSE <<>>
  /\ UNCHANGED store

\* an exception leaves the action and main, before anything is written
Crash(exc) ==
  /\ pc' = "crashed"
  /\ raised' = exc
  /\ habits' = <<>>
  /\ UNCHANGED <<file, store>>

\* ------------------------------------------------------------------- menu
\* the first index whose habit compares equal to h (list.remove)
FirstEq(hs, h) == CHOOSE j \in DOMAIN hs : hs[j] = h /\ \A k \in 1 .. j - 1 : hs[k] # h

RemoveAt(hs, j) == [i \in 1 .. Len(hs) - 1 |-> IF i < j THEN hs[i] ELSE hs[i + 1]]

\* the habits after action_add
\* action_add comparing names as typed
AfterAdd_case_sensitive(hs, name, id, t) ==
  IF \E i \in DOMAIN hs : hs[i].name = name
  THEN hs
  ELSE Append(hs, Habit(id, name, t, <<>>))

AfterAdd(hs, name, id, t) ==
  IF \E i \in DOMAIN hs : lower(hs[i].name) = lower(name)
  THEN hs
  ELSE Append(hs, Habit(id, name, t, <<>>))

\* choice 1
ActionList ==
  /\ pc = "menu"
  /\ IF \E i \in DOMAIN habits : ~CanHash(habits[i])
     THEN Crash("TypeError")
     ELSE UNCHANGED <<pc, raised, file, habits, store>>
  /\ UNCHANGED <<bak, today, last>>

\* choice 2
ActionAdd(name, id, io) ==
  /\ pc = "menu"
  /\ Len(AfterAdd(habits, name, id, today_iso)) <= MaxHabits \/ AfterAdd(habits, name, id, today_iso) = habits
  /\ SaveThen(AfterAdd(habits, name, id, today_iso), io, "menu")
  /\ UNCHANGED <<bak, today, last>>

\* choice 3 marking every habit of the sequence
ActionMarkToday_all(sel, io) ==
  /\ pc = "menu"
  /\ sel \in 0 .. Len(habits)
  /\ IF sel = 0
     THEN SaveThen(habits, io, "menu")
     ELSE IF \E i \in DOMAIN habits : mark_complete(habits[i], today_iso).raised # "none"
          THEN io = "ok" /\ Crash("TypeError")
          ELSE SaveThen([i \in DOMAIN habits |-> mark_complete(habits[i], today_iso).habit],
                        io, "menu")
  /\ UNCHANGED <<bak, today, last>>

\* choice 3; sel = 0 when choose_habit returns None
ActionMarkToday(sel, io) ==
  /\ pc = "menu"
  /\ sel \in 0 .. Len(habits)
  /\ IF sel = 0
     THEN SaveThen(habits, io, "menu")
     ELSE LET out == mark_complete(habits[sel], today_iso) IN
          IF out.raised # "none"
          THEN io = "ok" /\ Crash(out.raised)
          ELSE SaveThen([habits EXCEPT ![sel] = out.habit], io, "menu")
  /\ UNCHANGED <<bak, today, last>>

\* choice 4
ActionUnmarkToday(sel, io) ==
  /\ pc = "menu"
  /\ sel \in 0 .. Len(habits)
  /\ IF sel = 0
     THEN SaveThen(habits, io, "menu")
     ELSE LET out == unmark_complete(habits[sel], today_iso) IN
          IF out.raised # "none"
          THEN io = "ok" /\ Crash(out.raised)
          ELSE SaveThen([habits EXCEPT ![sel] = out.habit], io, "menu")
  /\ UNCHANGED <<bak, today, last>>

\* choice 5
ActionDetails(sel) ==
  /\ pc = "menu"
  /\ sel \in 0 .. Len(habits)
  /\ IF sel # 0 /\ ~CanHash(habits[sel])
     THEN Crash("TypeError")
     ELSE UNCHANGED <<pc, raised, file, habits, store>>
  /\ UNCHANGED <<bak, today, last>>

\* choice 6
ActionWeeklySummary ==
  /\ pc = "menu"
  /\ IF \E i \in DOMAIN habits : ~CanHash(habits[i])
     THEN Crash("TypeError")
     ELSE UNCHANGED <<pc, raised, file, habits, store>>
  /\ UNCHANGED <<bak, today, last>>

\* the habits after action_delete
AfterDelete(hs, sel, confirm) ==
  IF sel = 0 \/ ~confirm THEN hs ELSE RemoveAt(hs, FirstEq(hs, hs[sel]))

\* choice 7
ActionDelete(sel, confirm, io) ==
  /\ pc = "menu"
  /\ sel \in 0 .. Len(habits)
  /\ SaveThen(AfterDelete(habits, sel, confirm), io, "menu")
  /\ UNCHANGED <<bak, today, last>>

\* choice 0 without the save before the loop ends
Exit_without_save(io) ==
  /\ pc = "menu"
  /\ pc' = "done"
  /\ habits' = <<>>
  /\ UNCHANGED <<file, raised, store, bak, today, last>>

\* choice 0
Exit(io) ==
  /\ pc = "menu"
  /\ SaveThen(habits, io, "done")
  /\ UNCHANGED <<bak, today, last>>

\* any other choice
InvalidChoice ==
  /\ pc = "menu"
  /\ UNCHANGED vars

\* midnight passes
Tick ==
  /\ pc # "unit"
  /\ today < MaxDay
  /\ today' = today + 1
  /\ UNCHANGED <<pc, file, bak, store, habits, last, raised>>

\* the user runs the program again
Restart ==
  /\ pc \in {"done", "crashed"}
  /\ pc' = "start"
  /\ raised' = "none"
  /\ UNCHANGED <<file, bak, store, habits, today, last>>

\* ------------------------------------------------------- stored documents
Run == <<82, 117, 110>>
D(n) == StrV(isoformat(n))

\* a field that the record does not have
Missing == [t |-> "missing", v |-> <<>>]

\* a habit record with the fields that are not Missing
Entry(id, name, created_at, completions) ==
  LET f == [id |-> id, name |-> name, created_at |-> created_at, completions |-> completions]
  IN DictV([k \in {kk \in DOMAIN f : f[kk] # Missing} |-> f[k]])

Doc(entries) == DictV([version |-> NumV(SCHEMA_VERSION), habits |-> ListV(entries)])

\* a record that load_store and habits_from_store accept as it is
GoodEntry(c, completions) == Entry(StrV(HexId(c)), StrV(Run), D(0), ListV(completions))

\* documents whose top level is not the expected one
OddShapes ==
  { ListV(<<>>), NumV(3), NullV, StrV(Run),
    EmptyDict,
    DictV([note |-> NumV(1)]),
    DictV([version |-> NumV(2), note |-> NumV(1)]),
    DictV([version |-> NumV(2), habits |-> NullV, note |-> NumV(1)]),
    DictV([habits |-> StrV(Run)]),
    DictV([version |-> StrV(<<49>>), habits |-> DictV([note |-> NumV(1)])]),
    DictV([version |-> BoolV(TRUE), habits |-> ListV(<<>>)]),
    DictV([version |-> NullV, habits |-> ListV(<<GoodEntry(97, <<>>)>>), note |-> NumV(1)]),
    DictV([habits |-> ListV(<<GoodEntry(97, <<D(0)>>)>>)]) }

\* files that do not parse
RawFiles == {RawFile("oserror", 1), RawFile("badutf8", 1), RawFile("badjson", 1)}

\* an earlier backup
OldBackup == RawFile("badjson", 9)

\* the data files main() is started on
InitFiles ==
  {Absent} \cup RawFiles
  \cup {JsonFile(d) : d \in
         { ListV(<<>>),
           DictV([version |-> NumV(2), note |-> NumV(1)]),
           DictV([version |-> NumV(2), habits |-> NullV, note |-> NumV(1)]),
           DictV([version |-> BoolV(TRUE), habits |-> ListV(<<>>)]),
           Doc(<<GoodEntry(97, <<D(1), D(0), D(1)>>)>>),
           Doc(<<GoodEntry(97, <<ListV(<<>>)>>)>>),
           Doc(<<GoodEntry(97, <<NumV(2)>>)>>),
           Doc(<<Entry(StrV(HexId(97)), StrV(Run), D(0), NumV(5))>>),
           Doc(<<GoodEntry(97, <<D(0)>>), NumV(3), GoodEntry(98, <<>>), GoodEntry(97, <<D(0)>>)>>) }}

\* values a hand-edited record can hold in each field
IdVals == {Missing, StrV(<<>>), StrV(HexId(97)), NumV(7), NumV(0), NullV, BoolV(FALSE),
           ListV(<<>>), ListV(<<StrV(Run), NumV(1)>>), EmptyDict, DictV([note |-> NullV])}
NameVals == {Missing, StrV(<<>>), StrV(Run), NumV(0), NullV, ListV(<<>>)}
CreatedVals == {Missing, D(0), NumV(5), NullV}
CompletionVals ==
  {Missing, ListV(<<>>), ListV(<<D(0), D(1)>>), ListV(<<D(1), D(0), D(1)>>),
   ListV(<<NumV(2), D(0)>>), ListV(<<ListV(<<>>)>>),
   StrV(Run), StrV(<<>>), NumV(5), NullV, BoolV(TRUE), EmptyDict, DictV([note |-> NumV(1)])}

RichEntries ==
  {Entry(i, n, c, p) : i \in IdVals, n \in NameVals, c \in CreatedVals, p \in CompletionVals}

\* entries for the documents that hold several
FewEntries ==
  { GoodEntry(97, <<D(0)>>), GoodEntry(98, <<>>), NumV(3), NullV, ListV(<<>>),
    Entry(StrV(<<>>), StrV(Run), Missing, Missing),
    Entry(StrV(HexId(97)), Missing, D(0), ListV(<<>>)),
    Entry(NullV, NumV(0), Missing, StrV(Run)),
    Entry(StrV(HexId(97)), StrV(Run), D(0), NullV) }

SeqsUpTo(S, n) == UNION {[1 .. k -> S] : k \in 0 .. n}

\* the documents the codec is checked on
RichDocs ==
  OddShapes
  \cup {Doc(<<e>>) : e \in RichEntries}
  \cup {Doc(es) : es \in SeqsUpTo(FewEntries, MaxLen)}

\* ------------------------------------------------------- specifications
InitCommon ==
  /\ store = NullV
  /\ last = NoCall
  /\ raised = "none"
  /\ today = 0

\* main(), run and run again
Init ==
  /\ pc = "start"
  /\ file \in InitFiles
  /\ bak \in IF file.kind \in {"oserror", "badjson"} THEN {Absent, OldBackup} ELSE {Absent}
  /\ habits = <<>>
  /\ InitCommon

Next ==
  \/ LoadStore
  \/ HabitsFromStore
  \/ ActionList
  \/ \E name \in Names, id \in NewIds, io \in SaveOutcomes : ActionAdd(name, id, io)
  \/ \E sel \in 0 .. MaxHabits + 2, io \in SaveOutcomes : ActionMarkToday(sel, io)
  \/ \E sel \in 0 .. MaxHabits + 2, io \in SaveOutcomes : ActionUnmarkToday(sel, io)
  \/ \E sel \in 0 .. MaxHabits + 2 : ActionDetails(sel)
  \/ ActionWeeklySummary
  \/ \E sel \in 0 .. MaxHabits + 2, confirm \in BOOLEAN, io \in SaveOutcomes :
       ActionDelete(sel, confirm, io)
  \/ \E io \in SaveOutcomes : Exit(io)
  \/ InvalidChoice
  \/ Tick
  \/ Restart

Spec == Init /\ [][Next]_vars

\* load_store and habits_from_store on every document of RichDocs
InitCodec ==
  /\ pc = "start"
  /\ file \in {Absent} \cup RawFiles \cup {JsonFile(d) : d \in RichDocs}
  /\ bak \in {Absent, OldBackup}
  /\ habits = <<>>
  /\ InitCommon

NextCodec == LoadStore \/ HabitsFromStore

SpecCodec == InitCodec /\ [][NextCodec]_vars

\* --------------------------------------------- one Habit, driven directly
\* The habit is one that habits_from_store decoded from a stored record whose
\* completions are any list of date strings, in any order, with repetitions.
\* a date string that is not zero-padded: 2024-3-1
Unpadded == <<50, 48, 50, 52, 45, 51, 45, 49>>

\* the iso_day arguments and the strings a completions list is drawn from
DayStrs == {isoformat(n) : n \in Days} \cup {Unpadded}

InitHabit ==
  /\ pc = "unit"
  /\ file = Absent
  /\ bak = Absent
  /\ \E c \in SeqsUpTo({StrV(d) : d \in DayStrs}, MaxLen) :
       habits = habits_from_store(Doc(<<GoodEntry(97, c)>>), isoformat(0))
  /\ InitCommon

\* habits[1].mark_complete(d)
CallMark(d) ==
  /\ pc = "unit"
  /\ LET out == mark_complete(habits[1], d) IN
       /\ habits' = <<out.habit>>
       /\ last' = Call("mark_complete", d, 0, out.ret, 0)
  /\ UNCHANGED <<pc, file, bak, store, today, raised>>

\* habits[1].unmark_complete(d)
CallUnmark(d) ==
  /\ pc = "unit"
  /\ LET out == unmark_complete(habits[1], d) IN
       /\ habits' = <<out.habit>>
       /\ last' = Call("unmark_complete", d, 0, out.ret, 0)
  /\ UNCHANGED <<pc, file, bak, store, today, raised>>

\* habits[1].is_completed_on(d)
CallIsCompleted(d) ==
  /\ pc = "unit"
  /\ last' = Call("is_completed_on", d, 0, is_completed_on(habits[1], d), 0)
  /\ UNCHANGED <<pc, file, bak, store, habits, today, raised>>

\* current_streak(habits[1], ref)
CallStreak(ref) ==
  /\ pc = "unit"
  /\ last' = Call("current_streak", <<>>, ref, FALSE, current_streak(habits[1], ref))
  /\ UNCHANGED <<pc, file, bak, store, habits, today, raised>>

NextHabit ==
  \/ \E d \in DayStrs : CallMark(d)
  \/ \E d \in DayStrs : CallUnmark(d)
  \/ \E d \in DayStrs : CallIsCompleted(d)
  \/ \E ref \in Days : CallStreak(ref)

SpecHabit == InitHabit /\ [][NextHabit]_vars

\* ------------------------------------------------------------------ claims
\* C1: after mark_complete(H, d), is_completed_on(H, d) is true;
\* mark_complete returns True exactly when d was not in the completion set
\* before, and when d was in it (as after a first mark_complete(H, d)) the
\* call returns False and leaves H.completions unchanged.
C1_MarkContract ==
  [][\A d \in DayStrs :
       CallMark(d) =>
         /\ StrV(d) \in Range(habits'[1].completions)
         /\ last'.ret = (StrV(d) \notin Range(habits[1].completions))
         /\ (StrV(d) \in Range(habits[1].completions) => habits' = habits)
         /\ (last.op = "mark_complete" /\ last.day = d =>
               ~last'.ret /\ habits'[1].completions = habits[1].completions)]_vars

\* a second mark_complete of the same day has returned False
C1_Witness ==
  /\ pc = "unit"
  /\ last.op = "mark_complete"
  /\ ~last.ret
  /\ StrV(last.day) \in Range(habits[1].completions)

\* C2: unmark_complete(H, d) leaves is_completed_on(H, d) false, also right
\* after mark_complete(H, d); on a day that is not in the completion set it
\* returns False and leaves H, the completions sequence included, as it was.
C2_UnmarkContract ==
  [][\A d \in DayStrs :
       CallUnmark(d) =>
         /\ StrV(d) \notin Range(habits'[1].completions)
         /\ last'.ret = (StrV(d) \in Range(habits[1].completions))
         /\ (StrV(d) \notin Range(habits[1].completions) => ~last'.ret /\ habits' = habits)]_vars

\* unmark_complete of a day that was not marked has returned False on a
\* habit whose completions are neither sorted nor free of duplicates
C2_Witness ==
  /\ pc = "unit"
  /\ last.op = "unmark_complete"
  /\ ~last.ret
  /\ Len(habits[1].completions) > Cardinality(Range(habits[1].completions))

\* the length of the run of consecutive completed days that ends at day s
RunEndingAt(C, s) ==
  CHOOSE k \in 0 .. Cardinality(C) :
    /\ \A j \in 0 .. k - 1 : D(s - j) \in C
    /\ D(s - k) \notin C

\* C10: current_streak returns the length of the maximal run of consecutive
\* completed days ending at s, where s = r if r is completed and r - 1
\* otherwise; 0 when the set is empty or s is not completed; {r, r-1, r-2}
\* gives 3, {r-2} gives 0 and {r-1} gives 1.
C10_Streak ==
  last.op = "current_streak" =>
    LET C == Range(habits[1].completions)
        r == last.ref
        s == IF D(r) \in C THEN r ELSE r - 1
    IN /\ last.n = RunEndingAt(C, s)
       /\ (C = {} \/ D(s) \notin C => last.n = 0)
       /\ (C = {D(r), D(r - 1), D(r - 2)} => last.n = 3)
       /\ (C = {D(r - 2)} => last.n = 0)
       /\ (C = {D(r - 1)} => last.n = 1)

\* a streak of two days that ended the day before the reference day
C10_Witness ==
  /\ last.op = "current_streak"
  /\ D(last.ref) \notin Range(habits[1].completions)
  /\ last.n = 2

\* c holds no two equal dates and is in ascending order
StrictlyAscending(c) ==
  \A i, j \in DOMAIN c : i < j => Comparable(c[i], c[j]) /\ ValLess(c[i], c[j])

\* c is in ascending order
Ascending(c) ==
  \A i, j \in DOMAIN c : i < j => Comparable(c[i], c[j]) /\ ~ValLess(c[j], c[i])

\* C3: after any call of mark_complete or unmark_complete on a habit the
\* program can hold (here one that habits_from_store produced from a loaded
\* document), the habit's completions contain no duplicate dates and are
\* sorted ascending.
C3_SortedAfterCall ==
  last.op \in {"mark_complete", "unmark_complete"}
    => StrictlyAscending(habits[1].completions)

AllStr(c) == \A i \in DOMAIN c : c[i].t = "str"

\* C4: for well-formed habits (non-empty id and name, completions a list of
\* strings), habits_from_store(store_from_habits(habits)) yields as many
\* habits in the same order, each with the same id, name, created_at and
\* completion set, and with completions in ascending order.
C4_RoundTrip ==
  pc = "menu" /\ (\A i \in DOMAIN habits : NotBroken(habits[i]) /\ AllStr(habits[i].completions))
    => LET doc == store_from_habits(habits)
           back == habits_from_store(doc, today_iso)
       IN /\ ~DecodeRaises(doc)
          /\ Len(back) = Len(habits)
          /\ \A i \in DOMAIN habits :
               /\ back[i].id = habits[i].id
               /\ back[i].name = habits[i].name
               /\ back[i].created_at = habits[i].created_at
               /\ Range(back[i].completions) = Range(habits[i].completions)
               /\ Ascending(back[i].completions)

\* C5: load_store never raises; for an absent file it returns the fresh
\* document; for a file that cannot be read or parsed it returns the fresh
\* document and the .bak path then holds the bytes the data file had.
C5_LoadNeverRaises ==
  [][LoadStore =>
       /\ pc' = "loaded"
       /\ (file.kind = "absent" => store' = default_store)
       /\ (file.kind \in {"oserror", "badutf8", "badjson"} =>
             store' = default_store /\ bak' = file)]_vars

WrongShape(doc) == doc.t # "dict" \/ "habits" \notin DOMAIN doc.v

\* C6: a file that does not parse, and also a file that parses to the wrong
\* top-level shape, is moved to the .bak path and load_store returns a fresh
\* empty document.
C6_Quarantine ==
  [][LoadStore /\ (file.kind = "badjson" \/ (file.kind = "json" /\ WrongShape(file.doc)))
       => store' = default_store /\ bak' = file /\ file' = Absent]_vars

\* C7: habits_from_store surfaces no error on any document load_store
\* returns: every entry is decoded or dropped and decoding completes.
C7_DecodeNeverRaises ==
  [][HabitsFromStore => pc' = "menu" /\ raised' = "none"]_vars

\* the entries of the stored document that C8 says are returned: records
\* whose id and name, "" when missing, are not the empty string
KeptIndexes(entries) ==
  {i \in DOMAIN entries :
     /\ entries[i].t = "dict"
     /\ Get(entries[i], "id", StrV(<<>>)) # StrV(<<>>)
     /\ Get(entries[i], "name", StrV(<<>>)) # StrV(<<>>)}

\* the k-th smallest element of a set of indexes
Nth(I, k) == CHOOSE i \in I : Cardinality({j \in I : j < i}) = k - 1

\* C8: habits_from_store returns exactly the entries that are records with a
\* non-empty id and name, in their original order, one habit per entry (no
\* deduplication of ids or names).
C8_DecodeKeeps ==
  [][HabitsFromStore /\ pc' = "menu" =>
       LET entries == store.v["habits"].v
           kept == KeptIndexes(entries)
       IN /\ Len(habits') = Cardinality(kept)
          /\ \A k \in 1 .. Cardinality(kept) :
               LET e == entries[Nth(kept, k)] IN
               /\ habits'[k].id = PyStr(e.v["id"])
               /\ habits'[k].name = PyStr(e.v["name"])
               /\ "completions" \in DOMAIN e.v =>
                    habits'[k].completions = PyList(e.v["completions"])]_vars

\* three entries were decoded to two habits with the same id and name
C8_Witness ==
  /\ pc = "menu"
  /\ file.kind = "json" /\ ~WrongShape(file.doc) /\ file.doc.v["habits"].t = "list"
  /\ Len(file.doc.v["habits"].v) = 3
  /\ Len(habits) = 2
  /\ habits[1].id = habits[2].id /\ habits[1].name = habits[2].name

\* C9: for a file that parses, load_store returns a record whose version
\* equals 1 (as Python compares: 1 == True) and whose habits is a sequence;
\* habits that is not a sequence comes back as [] with the other fields
\* kept, a version other than 1 or missing comes back as 1, and habits that
\* is a sequence is returned unchanged.
C9_LoadedShape ==
  [][LoadStore /\ file.kind = "json" =>
       /\ store'.t = "dict"
       /\ {"version", "habits"} \subseteq DOMAIN store'.v
       /\ PyEq(store'.v["version"], NumV(1))
       /\ store'.v["habits"].t = "list"
       /\ ~WrongShape(file.doc) =>
            /\ ~PyEq(Get(file.doc, "version", NullV), NumV(1)) => store'.v["version"] = NumV(1)
            /\ store'.v["habits"] =
                 IF file.doc.v["habits"].t = "list" THEN file.doc.v["habits"] ELSE ListV(<<>>)
            /\ \A k \in DOMAIN file.doc.v \ {"version", "habits"} :
                 k \in DOMAIN store'.v /\ store'.v[k] = file.doc.v[k]]_vars

\* a record with version 2, habits null and one more field was loaded
C9_Witness ==
  /\ pc = "loaded"
  /\ file.kind = "json" /\ ~WrongShape(file.doc)
  /\ file.doc.v["habits"].t # "list"
  /\ Get(file.doc, "version", NullV) = NumV(2)
  /\ store.v["version"] = NumV(1)
  /\ store.v["habits"] = ListV(<<>>)
  /\ "note" \in DOMAIN store.v

\* ------------------------------------------- weekly_summary, driven directly
\* the days completions are drawn from: they reach before the seven days
\* that end at a reference day and after it
WeekDays == (0 - MaxBack) .. 1
WeekRefs == {0, 1}

InitWeekly ==
  /\ pc = "unit"
  /\ file = Absent
  /\ bak = Absent
  /\ \E c \in SeqsUpTo({D(n) : n \in WeekDays}, MaxLen) :
       habits = habits_from_store(Doc(<<GoodEntry(97, c)>>), isoformat(0))
  /\ InitCommon

\* weekly_summary(habits[1], ref)
CallWeekly(ref) ==
  /\ pc = "unit"
  /\ last' = Call("weekly_summary", <<>>, ref, FALSE, weekly_summary(habits[1], ref))
  /\ UNCHANGED <<pc, file, bak, store, habits, today, raised>>

NextWeekly ==
  \/ \E n \in WeekDays : CallMark(isoformat(n))
  \/ \E ref \in WeekRefs : CallWeekly(ref)

SpecWeekly == InitWeekly /\ [][NextWeekly]_vars

\* C11: weekly_summary returns the number of distinct completed days among
\* r, r-1, ..., r-6: between 0 and 7, a function of the completion set alone
\* (not of the order or repetitions of the list), and blind to completions
\* on r-7 or earlier and after r.
C11_Weekly ==
  last.op = "weekly_summary" =>
    LET C == Range(habits[1].completions)
        r == last.ref
    IN /\ last.n = Cardinality({e \in C : \E d \in (r - 6) .. r : e = D(d)})
       /\ last.n \in 0 .. 7
       /\ last.n = Cardinality(C \ {D(d) : d \in ((0 - MaxBack) - 1 .. r - 7) \cup (r + 1 .. 2)})

\* all seven days of the week were completed, and so were r-7 and r+1
C11_Witness ==
  /\ last.op = "weekly_summary"
  /\ last.n = 7
  /\ D(last.ref - 7) \in Range(habits[1].completions)
  /\ D(last.ref + 1) \in Range(habits[1].completions)

\* ------------------------------------------------------------- action_add
SameName(a, b) == lower(a) = lower(b)
NameTaken(hs, name) == \E i \in DOMAIN hs : SameName(hs[i].name, name)
UniqueNames(hs) == \A i, j \in DOMAIN hs : SameName(hs[i].name, hs[j].name) => i = j

C13_Delete ==
  [][\A sel \in DOMAIN habits, confirm \in BOOLEAN :
       ActionDelete(sel, confirm, "ok") =>
         habits' = IF confirm THEN RemoveAt(habits, sel) ELSE habits]_vars

\* ---------------------------------------------------------------- habit ids
\* C14: the id given to a habit by action_add is the id of no habit of the
\* sequence, whether that habit was added before or loaded from the store.
C14_FreshIds ==
  [][pc = "menu" /\ pc' = "menu" /\ Len(habits') = Len(habits) + 1 =>
       \A i \in DOMAIN habits : habits[i].id # habits'[Len(habits')].id]_vars

\* ------------------------------------------------------ the written document
\* C15: every document the program writes has version 1 and lists the
\* habits in memory, in display order, each with its id, name, created_at and
\* a completions sequence that is ascending and free of repetitions.
C15_WrittenDocument ==
  [][pc = "menu" /\ file' # file /\ file'.kind = "json" =>
       LET hs == IF pc' = "menu" THEN habits' ELSE habits
           doc == file'.doc
       IN /\ doc.t = "dict"
          /\ DOMAIN doc.v = {"version", "habits"}
          /\ doc.v.version = NumV(1)
          /\ doc.v.habits = ListV([i \in DOMAIN hs |-> asdict(hs[i])])
          /\ \A i \in DOMAIN hs : StrictlyAscending(doc.v.habits.v[i].v.completions.v)]_vars

\* ------------------------------------------------------- save_store failing
\* the menu choices that end in save_store, io being what the write meets
SavingChoice(io) ==
  \/ \E name \in Names, id \in NewIds : ActionAdd(name, id, io)
  \/ \E sel \in 0 .. Len(habits) : ActionMarkToday(sel, io)
  \/ \E sel \in 0 .. Len(habits) : ActionUnmarkToday(sel, io)
  \/ \E sel \in 0 .. Len(habits), confirm \in BOOLEAN : ActionDelete(sel, confirm, io)
  \/ Exit(io)

\* C16: an I/O failure in save_store, at open or while writing, reaches
\* main as an OSError: a step that goes on in the menu loop, or ends in any
\* other way than by that OSError, is no menu choice whose write failed.
C16_SaveFailure ==
  [][pc = "menu" /\ ~(pc' = "crashed" /\ raised' = "OSError") =>
       \A io \in SaveOutcomes \ {"ok"} : ~SavingChoice(io)]_vars

\* a write that failed half-way ended the program
C16_Witness ==
  /\ pc = "crashed"
  /\ raised = "OSError"
  /\ file = RawFile("badjson", 2)

\* ------------------------------------------------------ what a call leaves
SameButCompletions(a, b) ==
  a.id = b.id /\ a.name = b.name /\ a.created_at = b.created_at

\* C17: a mark or unmark changes the completions of the habit it is called
\* on and nothing else: that habit keeps id, name and created_at, every
\* other habit is as before, and the sequence keeps its length and order.
\* Under add and delete too every habit that stays keeps all its fields,
\* created_at among them: an add leaves the earlier habits in place, a delete
\* takes one entry out.
C17_Frame ==
  [][pc = "menu" /\ pc' = "menu" /\ habits' # habits =>
       /\ Len(habits') \in {Len(habits) - 1, Len(habits), Len(habits) + 1}
       /\ Len(habits') = Len(habits) =>
            /\ \E sel \in DOMAIN habits :
                 /\ SameButCompletions(habits'[sel], habits[sel])
                 /\ \A i \in DOMAIN habits \ {sel} : habits'[i] = habits[i]
            /\ \A sel \in DOMAIN habits :
                 ActionMarkToday(sel, "ok") \/ ActionUnmarkToday(sel, "ok") =>
                   /\ SameButCompletions(habits'[sel], habits[sel])
                   /\ \A i \in DOMAIN habits \ {sel} : habits'[i] = habits[i]
       /\ Len(habits') = Len(habits) + 1 => SubSeq(habits', 1, Len(habits)) = habits
       /\ Len(habits') = Len(habits) - 1 => \E j \in DOMAIN habits : habits' = RemoveAt(habits, j)]_vars

\* the second of two habits, created on day 0, was marked on day 1
C17_Witness ==
  /\ pc = "menu"
  /\ today = 1
  /\ Len(habits) = 2
  /\ habits[1].completions = <<>>
  /\ habits[2].created_at = isoformat(0)
  /\ habits[2].completions = <<D(1)>>

\* ------------------------------------------------------ save after mutation
\* the file holds what store_from_habits makes of hs
InSync(f, hs) == f = JsonFile(store_from_habits(hs))

\* a choice that saves, taken so that it changes no habit, and its write
\* succeeding
ChangesNothing ==
  \/ ActionMarkToday(0, "ok")
  \/ ActionUnmarkToday(0, "ok")
  \/ \E sel \in 0 .. Len(habits) : ActionDelete(sel, FALSE, "ok")
  \/ \E i \in DOMAIN habits, id \in NewIds : ActionAdd(habits[i].name, id, "ok")

\* C18: when main is back at the menu after Add, Mark today, Undo today or
\* Delete, whether or not the choice changed a habit, and when it has left
\* the loop at Exit, the file holds store_from_habits of the habits in
\* memory, unless the write failed; List, Details and Weekly summary change
\* neither the habits nor the file.
C18_SaveAfterMutation ==
  /\ [](pc = "menu" => ENABLED (ChangesNothing /\ habits' = habits /\ InSync(file', habits)))
  /\ [](pc = "menu" => ~ENABLED (ChangesNothing /\ pc' = "menu" /\ ~InSync(file', habits')))
  /\ [][pc = "menu" =>
          /\ pc' = "done" => InSync(file', habits)
          /\ pc' = "menu" /\ today' = today => InSync(file', habits')
          /\ ActionList \/ (\E sel \in 0 .. Len(habits) : ActionDetails(sel)) \/ ActionWeeklySummary =>
               pc' = "crashed" /\ file' = file]_vars

\* a habit added and marked on day 1 is in the file
C18_Witness ==
  /\ pc = "menu"
  /\ today = 1
  /\ Len(habits) = 2
  /\ \E id \in NewIds : habits[2] = Habit(id, <<71, 111>>, isoformat(1), <<D(1)>>)
  /\ InSync(file, habits)

\* ----------------------------------------------- marking the reference day
\* C19: for a habit H and a day r that is not in H's completion set,
\* current_streak(H, r) after mark_complete(H, r) is current_streak(H, r)
\* before it plus 1, and an unmark_complete(H, r) that follows takes the 1
\* off again.
C19_MarkExtendsStreak ==
  [][\A r \in Days :
       /\ CallMark(isoformat(r)) /\ D(r) \notin completion_set(habits[1]) =>
            current_streak(habits'[1], r) = current_streak(habits[1], r) + 1
       /\ /\ CallUnmark(isoformat(r))
          /\ last.op = "mark_complete" /\ last.day = isoformat(r) /\ last.ret
          => current_streak(habits'[1], r) = current_streak(habits[1], r) - 1]_vars

\* marking the last day made a streak of three, and the unmark that
\* followed left the streak of two that ended the day before
C19_Witness ==
  /\ last.op = "unmark_complete"
  /\ last.day = isoformat(MaxDay)
  /\ last.ret
  /\ current_streak(habits[1], MaxDay) = 2
  /\ current_streak(mark_complete(habits[1], isoformat(MaxDay)).habit, MaxDay) = 3
====
